---- MODULE Spec2Model ----
(***************************************************************************)
(* The s-expression utilities of src/ulf2english/util.py: rec_replace,     *)
(* rec_remove, subst, substall, split_by_cond, extract_category, rec_find  *)
(* and rec_find_if, as operators over a tagged representation of Python    *)
(* values, driven by a harness that draws the arguments of one call from   *)
(* bounded sets, applies the function and records what it returned.        *)
(***************************************************************************)
EXTENDS Integers, Sequences, FiniteSets, Bags, TLC

(***************************************************************************)
(* Python values.  Every value is a record with the same three fields, so  *)
(* that == between values of different types is plain record equality:     *)
(*   k = "list"  a list, ch its elements                                   *)
(*   k = "str"   a string, n its characters read as base-32 digits         *)
(*               (a = 1 .. z = 26; "" is 0)                                *)
(*   k = "num"   a number n                                                *)
(*   k = "none"  None                                                      *)
(*   k = "TypeError"  the outcome of a call that raised TypeError          *)
(***************************************************************************)
List(s) == [k |-> "list", n |-> 0, ch |-> s]
Str(n) == [k |-> "str", n |-> n, ch |-> <<>>]
Num(n) == [k |-> "num", n |-> n, ch |-> <<>>]
None == [k |-> "none", n |-> 0, ch |-> <<>>]
TypeError == [k |-> "TypeError", n |-> 0, ch |-> <<>>]

Nil == List(<<>>)

\* The characters of a string, as Python's iteration over a str yields them.
RECURSIVE StrChars(_)
StrChars(n) == IF n = 0 THEN <<>> ELSE Append(StrChars(n \div 32), Str(n % 32))

\* The tokens the model uses.
a == Str(1)
b == Str(2)
c == Str(3)
d == Str(4)
ab == Str(1 * 32 + 2)
sent == Str(((19 * 32 + 5) * 32 + 14) * 32 + 20)
ignore == Str(((((9 * 32 + 7) * 32 + 14) * 32 + 15) * 32 + 18) * 32 + 5)

\* type(e) == list / isinstance(lst, list)
listp(lst) == lst.k = "list"

\* Python truth value of a value: empty list, empty string, 0 and None are false.
Truthy(x) ==
    CASE x.k = "list" -> x.ch # <<>>
      [] x.k = "str" -> x.n # 0
      [] x.k = "num" -> x.n # 0
      [] OTHER -> FALSE

\* atom(lst): either the empty list or a non-list.
atom(lst) == ~Truthy(lst) \/ ~listp(lst)

\* `for e in lst`: a list yields its elements, a str its characters; a number
\* or None is not iterable.
Iterable(lst) == lst.k \in {"list", "str"}
Iter(lst) == IF lst.k = "list" THEN lst.ch ELSE StrChars(lst.n)

(***************************************************************************)
(* rec_replace and rec_remove                                              *)
(***************************************************************************)
RECURSIVE rec_replace(_, _, _)

\* A faulty variant: no check of the whole list against old before the loop.
rec_replace_no_whole_check(old, new, lst) ==
    IF ~Iterable(lst) THEN TypeError
    ELSE LET it == Iter(lst)
         IN  List([i \in 1..Len(it) |->
                      IF it[i] = old THEN new
                      ELSE IF listp(it[i]) THEN rec_replace(old, new, it[i])
                      ELSE it[i]])

rec_replace(old, new, lst) ==
    IF lst = old THEN new
    ELSE IF ~Iterable(lst) THEN TypeError
    ELSE LET it == Iter(lst)
         IN  List([i \in 1..Len(it) |->
                      IF it[i] = old THEN new
                      ELSE IF listp(it[i]) THEN rec_replace(old, new, it[i])
                      ELSE it[i]])

\* The loop of rec_remove over the elements es: an element equal to target is
\* skipped (continue) before it is looked into; a list is recursed into.
RECURSIVE rec_remove(_, _), rec_remove_loop(_, _)

\* A faulty variant: a list that removal empties is dropped with the target.
rec_remove_loop_drop_emptied(target, es) ==
    IF es = <<>> THEN <<>>
    ELSE LET e == Head(es)
             rest == rec_remove_loop(target, Tail(es))
         IN  IF e = target THEN rest
             ELSE IF listp(e)
                  THEN (IF e # Nil /\ rec_remove(target, e) = Nil
                        THEN rest ELSE <<rec_remove(target, e)>> \o rest)
             ELSE <<e>> \o rest

\* A faulty variant: only the direct elements are looked at; lists are kept as they are.
rec_remove_loop_shallow(target, es) ==
    IF es = <<>> THEN <<>>
    ELSE LET e == Head(es)
             rest == rec_remove_loop(target, Tail(es))
         IN  IF e = target THEN rest ELSE <<e>> \o rest

rec_remove_loop(target, es) ==
    IF es = <<>> THEN <<>>
    ELSE LET e == Head(es)
             rest == rec_remove_loop(target, Tail(es))
         IN  IF e = target THEN rest
             ELSE IF listp(e) THEN <<rec_remove(target, e)>> \o rest
             ELSE <<e>> \o rest

\* A faulty variant: the whole-tree check of rec_replace, copied into rec_remove.
rec_remove_whole_tree(target, lst) ==
    IF lst = target THEN Nil
    ELSE IF ~Iterable(lst) THEN TypeError
    ELSE List(rec_remove_loop(target, Iter(lst)))

rec_remove(target, lst) ==
    IF ~Iterable(lst) THEN TypeError
    ELSE List(rec_remove_loop(target, Iter(lst)))

(***************************************************************************)
(* cons, append, subst, substall                                           *)
(***************************************************************************)
\* cons(lst1, lst2): onto a list, [lst1] + lst2; onto a non-list (sets are not
\* among the values modelled), the two-element list [lst1, lst2].
\* A faulty variant: the value goes to the end of the list (push) instead of the front.
cons_at_end(lst1, lst2) ==
    IF listp(lst2) THEN List(lst2.ch \o <<lst1>>)
    ELSE List(<<lst2, lst1>>)

cons(lst1, lst2) ==
    IF listp(lst2) THEN List(<<lst1>> \o lst2.ch)
    ELSE List(<<lst1, lst2>>)

\* append(lst): [x for l in lst for x in l]
RECURSIVE append_from(_, _)
append_from(ls, i) ==
    IF i > Len(ls) THEN <<>> ELSE Iter(ls[i]) \o append_from(ls, i + 1)

append(lst) == List(append_from(Iter(lst), 1))

\* flatten(lst): the leaves of lst, left to right.
RECURSIVE flatten(_)
flatten(lst) ==
    IF ~listp(lst) THEN List(<<lst>>)
    ELSE append(List([i \in 1..Len(lst.ch) |-> flatten(lst.ch[i])]))

\* subst_rec(a, b, x): a for b throughout x.
RECURSIVE subst_rec(_, _, _)
subst_rec(x_a, x_b, x) ==
    IF x = x_b THEN x_a
    ELSE IF atom(x) THEN x
    ELSE List([i \in 1..Len(x.ch) |-> subst_rec(x_a, x_b, x.ch[i])])

\* A faulty variant: the atom check is left out at the top, as in rec_replace.
subst_no_atom_check(x_a, x_b, lst) ==
    IF lst = x_b THEN x_a
    ELSE IF ~Iterable(lst) THEN TypeError
    ELSE subst_rec(x_a, x_b, lst)

subst(x_a, x_b, lst) == subst_rec(x_a, x_b, lst)

\* substall(lst, replist): for (b, a) in replist: lst = subst(a, b, lst).
\* A pair of replist is <<b, a>>: the value to find, then its replacement.
RECURSIVE substall(_, _)

\* A faulty variant: the pairs are applied last to first.
substall_last_first(lst, replist) ==
    IF replist = <<>> THEN lst
    ELSE subst(Head(replist)[2], Head(replist)[1], substall(lst, Tail(replist)))

substall(lst, replist) ==
    IF replist = <<>> THEN lst
    ELSE substall(subst(Head(replist)[2], Head(replist)[1], lst), Tail(replist))

(***************************************************************************)
(* Caller-supplied functions of one node.  A function is a record:         *)
(*   kind "in"    lambda y: y in set                                       *)
(*   kind "eq"    lambda y: arg == y      (rec_find's default test)        *)
(*   kind "ne"    lambda y: arg != y      (rec_find with another test)     *)
(*   kind "head"  lambda y: listp(y) and y and y[0] == arg                 *)
(*   kind "None"  no function given (ignfn=None)                           *)
(***************************************************************************)
In(S) == [kind |-> "in", arg |-> None, set |-> S]
Eq(x) == [kind |-> "eq", arg |-> x, set |-> {}]
Ne(x) == [kind |-> "ne", arg |-> x, set |-> {}]
HeadIs(x) == [kind |-> "head", arg |-> x, set |-> {}]
NoFn == [kind |-> "None", arg |-> None, set |-> {}]

Call(fn, y) ==
    CASE fn.kind = "in" -> y \in fn.set
      [] fn.kind = "eq" -> fn.arg = y
      [] fn.kind = "ne" -> fn.arg # y
      [] fn.kind = "head" -> listp(y) /\ y.ch # <<>> /\ y.ch[1] = fn.arg
      [] OTHER -> FALSE

(***************************************************************************)
(* split_by_cond, extract_category, rec_find, rec_find_if                  *)
(***************************************************************************)
\* A faulty variant: nothing is filtered out of the list.
split_by_cond_keep_all(lst, cndfn) ==
    [filtered |-> lst,
     matching |-> List(SelectSeq(Iter(lst), LAMBDA x : Call(cndfn, x)))]

split_by_cond(lst, cndfn) ==
    [filtered |-> List(SelectSeq(Iter(lst), LAMBDA x : ~Call(cndfn, x))),
     matching |-> List(SelectSeq(Iter(lst), LAMBDA x : Call(cndfn, x)))]

\* The branch of rec at a non-atom: an ignored list keeps all its elements and
\* yields no matches at this level; any other list is split by catfn.
\* A faulty variant: an ignored list keeps its elements and still yields its matches.
rec_split_ignored_matches(lst, catfn, ignfn) ==
    IF ignfn # NoFn /\ Call(ignfn, lst)
    THEN [filtered |-> lst, matching |-> split_by_cond(lst, catfn).matching]
    ELSE split_by_cond(lst, catfn)

rec_split(lst, catfn, ignfn) ==
    IF ignfn # NoFn /\ Call(ignfn, lst)
    THEN [filtered |-> lst, matching |-> Nil]
    ELSE split_by_cond(lst, catfn)

RECURSIVE rec(_, _, _)
rec(lst, catfn, ignfn) ==
    IF atom(lst) THEN [lst_new |-> lst, categories |-> Nil]
    ELSE LET parts == rec_split(lst, catfn, ignfn)
             no_sent_ops == parts.filtered
             sent_ops == parts.matching
             recursed == [i \in 1..Len(no_sent_ops.ch) |->
                             rec(no_sent_ops.ch[i], catfn, ignfn)]
         IN  [lst_new |-> List([i \in 1..Len(recursed) |-> recursed[i].lst_new]),
              categories |->
                  append(cons(sent_ops,
                              List([i \in 1..Len(recursed) |-> recursed[i].categories])))]

extract_category(lst, catfn, ignfn) == rec(lst, catfn, ignfn)

\* rec_find(lst, x, test): test is "eq" (the default) or "ne".
rec_find(lst, x, test) ==
    extract_category(lst, IF test = "eq" THEN Eq(x) ELSE Ne(x), NoFn).categories

rec_find_if(lst, cndfn) == extract_category(lst, cndfn, NoFn).categories

(***************************************************************************)
(* The arguments the calls are drawn from.                                 *)
(***************************************************************************)
\* The largest number of nodes (lists and leaves) of a generated tree, and the
\* longest replist.
MaxNodes == 5
MaxPairs == 2

Leaves == {a, b}

\* The trees of exactly n nodes, and the sequences of trees of m nodes in all.
RECURSIVE SizedTrees(_), Forests(_)
SizedTrees(n) ==
    (IF n = 1 THEN Leaves ELSE {}) \cup {List(f) : f \in Forests(n - 1)}

Forests(m) ==
    IF m = 0 THEN {<<>>}
    ELSE UNION {{<<t>> \o f : t \in SizedTrees(i), f \in Forests(m - i)} : i \in 1..m}

\* The trees of the concrete scenarios: [sent, [ignore, [a, b]], c],
\* [a, [b, c], d] and [[a, b], [a, c]].
ScenarioIgnore == List(<<sent, List(<<ignore, List(<<a, b>>)>>), c>>)
ScenarioTrees ==
    {ScenarioIgnore,
     List(<<a, List(<<b, c>>), d>>),
     List(<<List(<<a, b>>), List(<<a, c>>)>>)}

\* Atoms given as the whole tree: text (one character, several, none), numbers, None.
RootAtoms == {c, ab, Str(0), Num(0), Num(7), None}

Compounds == UNION {SizedTrees(n) \ Leaves : n \in 1..MaxNodes} \cup ScenarioTrees
Trees == Compounds \cup Leaves \cup RootAtoms

\* Values searched for, removed or replaced, and the values put in their place.
Targets == {a, b, Nil, List(<<a>>), List(<<a, b>>)}
Replacements == {c, Nil, List(<<a>>)}

\* replist: up to MaxPairs pairs <<b, a>>.
Pairs == {<<a, b>>, <<b, c>>, <<List(<<a>>), a>>}
RECURSIVE RepLists(_)
RepLists(n) ==
    IF n = 0 THEN {<<>>}
    ELSE RepLists(n - 1) \cup {<<p>> \o r : p \in Pairs, r \in RepLists(n - 1)}

\* catfn and ignfn.
MatchSets ==
    {S \cup T : S \in SUBSET {a, b},
                T \in {{}, {Nil}, {List(<<a>>), List(<<a, b>>)}}}
CatFns == {In(S) : S \in MatchSets} \cup {Eq(d)}
IgnFns == {NoFn, HeadIs(a), HeadIs(ignore)}

(***************************************************************************)
(* The harness: one call at a time.  pc names the function that has        *)
(* returned ("idle": none yet); the other variables hold the arguments it  *)
(* was given and what it returned.                                         *)
(***************************************************************************)
VARIABLES pc, lst, target, repl, replist, catfn, ignfn, test, ret, categories

vars == <<pc, lst, target, repl, replist, catfn, ignfn, test, ret, categories>>

Init ==
    /\ pc = "idle"
    /\ lst = Nil
    /\ target = None
    /\ repl = None
    /\ replist = <<>>
    /\ catfn = NoFn
    /\ ignfn = NoFn
    /\ test = "eq"
    /\ ret = None
    /\ categories = Nil

\* rec_replace(old, new, lst)
RecReplace ==
    /\ pc = "idle"
    /\ \E t \in Trees : \E old \in Targets \cup {t}, new \in Replacements :
          /\ lst' = t
          /\ target' = old
          /\ repl' = new
          /\ ret' = rec_replace(old, new, t)
    /\ pc' = "rec_replace"
    /\ UNCHANGED <<replist, catfn, ignfn, test, categories>>

\* rec_remove(target, lst)
RecRemove ==
    /\ pc = "idle"
    /\ \E t \in Trees : \E x \in Targets \cup {t} :
          /\ lst' = t
          /\ target' = x
          /\ ret' = rec_remove(x, t)
    /\ pc' = "rec_remove"
    /\ UNCHANGED <<repl, replist, catfn, ignfn, test, categories>>

\* subst(a, b, lst)
Subst ==
    /\ pc = "idle"
    /\ \E t \in Trees : \E x_b \in Targets \cup {t}, x_a \in Replacements :
          /\ lst' = t
          /\ target' = x_b
          /\ repl' = x_a
          /\ ret' = subst(x_a, x_b, t)
    /\ pc' = "subst"
    /\ UNCHANGED <<replist, catfn, ignfn, test, categories>>

\* substall(lst, replist)
SubstAll ==
    /\ pc = "idle"
    /\ \E t \in Trees, r \in RepLists(MaxPairs) :
          /\ lst' = t
          /\ replist' = r
          /\ ret' = substall(t, r)
    /\ pc' = "substall"
    /\ UNCHANGED <<target, repl, catfn, ignfn, test, categories>>

\* extract_category(lst, catfn, ignfn)
ExtractCategory ==
    /\ pc = "idle"
    /\ \E t \in Trees, cf \in CatFns, gf \in IgnFns :
          /\ lst' = t
          /\ catfn' = cf
          /\ ignfn' = gf
          /\ ret' = extract_category(t, cf, gf).lst_new
          /\ categories' = extract_category(t, cf, gf).categories
    /\ pc' = "extract_category"
    /\ UNCHANGED <<target, repl, replist, test>>

\* rec_find(lst, x, test)
RecFind ==
    /\ pc = "idle"
    /\ \E t \in Trees, x \in Targets, tst \in {"eq", "ne"} :
          /\ lst' = t
          /\ target' = x
          /\ test' = tst
          /\ categories' = rec_find(t, x, tst)
    /\ pc' = "rec_find"
    /\ UNCHANGED <<repl, replist, catfn, ignfn, ret>>

\* rec_find_if(lst, cndfn)
RecFindIf ==
    /\ pc = "idle"
    /\ \E t \in Trees, cf \in CatFns :
          /\ lst' = t
          /\ catfn' = cf
          /\ categories' = rec_find_if(t, cf)
    /\ pc' = "rec_find_if"
    /\ UNCHANGED <<target, repl, replist, ignfn, test, ret>>

\* The call is over; the next one starts from nothing.
Return ==
    /\ pc # "idle"
    /\ pc' = "idle"
    /\ lst' = Nil
    /\ target' = None
    /\ repl' = None
    /\ replist' = <<>>
    /\ catfn' = NoFn
    /\ ignfn' = NoFn
    /\ test' = "eq"
    /\ ret' = None
    /\ categories' = Nil

Next ==
    \/ RecReplace
    \/ RecRemove
    \/ Subst
    \/ SubstAll
    \/ ExtractCategory
    \/ RecFind
    \/ RecFindIf
    \/ Return

Spec == Init /\ [][Next]_vars

(***************************************************************************)
(* Positions in a tree, for stating the properties.                        *)
(***************************************************************************)
\* A path is the sequence of element indices from the root down to a node.
RECURSIVE Paths(_)
Paths(t) ==
    {<<>>} \cup
    (IF listp(t)
     THEN UNION {{<<i>> \o q : q \in Paths(t.ch[i])} : i \in 1..Len(t.ch)}
     ELSE {})

RECURSIVE At(_, _)
At(t, q) == IF q = <<>> THEN t ELSE At(t.ch[Head(q)], Tail(q))

Parent(q) == SubSeq(q, 1, Len(q) - 1)
IsPrefix(q1, q2) == Len(q1) <= Len(q2) /\ SubSeq(q2, 1, Len(q1)) = q1
StrictlyInside(q, top) == IsPrefix(top, q) /\ q # top

\* The values at the nodes of t other than its root.
Inner(t) == {At(t, q) : q \in Paths(t) \ {<<>>}}

\* How often x is an element of the sequence s.
Count(s, x) == Cardinality({i \in 1..Len(s) : s[i] = x})

Compound(t) == listp(t)

(***************************************************************************)
(* C1  Ignore predicate opacity of extract_category: when the ignore       *)
(* predicate is true of a Compound the walk reaches, that Compound is in   *)
(* the returned tree unchanged and no element strictly inside it is among  *)
(* the matches (every match is an element of the input that lies outside   *)
(* the ignored Compounds); for [sent, [ignore, [a, b]], c], ignoring the   *)
(* [ignore, ...] node and matching b, the matches are [] and the tree is   *)
(* returned as it was.                                                     *)
(***************************************************************************)
Ignored(t) == ignfn # NoFn /\ Compound(t) /\ t # Nil /\ Call(ignfn, t)

\* The walk reaches q when no list above q is ignored and no node on the way
\* down to q, q included, was taken out as a match.
RECURSIVE Reaches(_)
Reaches(q) ==
    \/ q = <<>>
    \/ /\ Reaches(Parent(q))
       /\ ~Ignored(At(lst, Parent(q)))
       /\ ~Call(catfn, At(lst, q))

IgnoredTops == {q \in Paths(lst) : Reaches(q) /\ Ignored(At(lst, q))}
Protected(q) == \E top \in IgnoredTops : StrictlyInside(q, top)

C1_IgnoreOpacity ==
    pc = "extract_category" =>
        /\ \A top \in IgnoredTops : At(lst, top) \in Inner(ret) \cup {ret}
        /\ \A x \in {At(lst, q) : q \in {p \in Paths(lst) : Protected(p)}} :
              Count(categories.ch, x)
                  <= Cardinality({q \in Paths(lst) : ~Protected(q) /\ At(lst, q) = x})
        /\ (lst = ScenarioIgnore /\ ignfn = HeadIs(ignore) /\ catfn = In({b})
               => categories = Nil /\ ret = lst)

(***************************************************************************)
(* C2  Extraction partition completeness: every node of t that satisfies   *)
(* p (and is not inside an ignored subtree) appears exactly once in the    *)
(* matches, and the rewritten tree contains exactly the nodes of t that do *)
(* not satisfy p (ignored subtrees being copied through whole).            *)
(***************************************************************************)
Occurrences(t, x) == Cardinality({q \in Paths(t) : At(t, q) = x})
Values(t) == {At(t, q) : q \in Paths(t)}
LeafValues(t) == {x \in Values(t) : ~Compound(x)}

RECURSIVE Visited(_), Extracted(_)
Extracted(q) ==
    /\ q # <<>>
    /\ Visited(Parent(q))
    /\ ~Ignored(At(lst, Parent(q)))
    /\ Call(catfn, At(lst, q))

Visited(q) == q = <<>> \/ (Visited(Parent(q)) /\ ~Extracted(q))

\* The tree at q without the positions taken out.
RECURSIVE Pruned(_)
Pruned(q) ==
    LET t == At(lst, q)
        kept == SelectSeq([i \in 1..Len(t.ch) |-> i], LAMBDA i : ~Extracted(q \o <<i>>))
    IN  IF ~Compound(t) THEN t
        ELSE List([j \in 1..Len(kept) |-> Pruned(q \o <<kept[j]>>)])

Raised == ret = TypeError \/ categories = TypeError

C3_Totality == pc # "idle" => ~Raised

\* C3 as amended: subst, substall, extract_category, rec_find and rec_find_if
\* never raise; rec_replace and rec_remove raise exactly when the tree is a
\* number or nil (which `for e in lst` cannot iterate) and, for rec_replace, is
\* not equal to old; a text Atom is iterated character by character.
C3_TotalOnIterables ==
    pc # "idle" =>
        (Raised <=> /\ pc \in {"rec_replace", "rec_remove"}
                    /\ lst.k \in {"num", "none"}
                    /\ ~(pc = "rec_replace" /\ lst = target))

\* rec_remove('b', 'ab') walks the characters of the text and returns ['a'].
C3_Witness ==
    /\ pc = "rec_remove"
    /\ lst = ab
    /\ target = b
    /\ ret = List(<<a>>)

(***************************************************************************)
(* C4  Removal preserves order and position: rec_remove(target, tree) of a *)
(* Compound is the tree's direct children that differ from target, in      *)
(* their original order, each Compound child replaced by its own           *)
(* rec_remove result; a Compound child emptied by the removal stays in     *)
(* its place as an empty Compound.                                         *)
(***************************************************************************)
KeptChildren(t, x) == SelectSeq(t.ch, LAMBDA e : e # x)

C4_RemovePreservesOrder ==
    pc = "rec_remove" /\ Compound(lst) =>
        LET kept == KeptChildren(lst, target)
        IN  /\ Compound(ret)
            /\ Len(ret.ch) = Len(kept)
            /\ \A i \in 1..Len(kept) :
                  /\ ~Compound(kept[i]) => ret.ch[i] = kept[i]
                  /\ Compound(kept[i]) => ret.ch[i] = rec_remove(target, kept[i])
                  /\ (Compound(kept[i]) /\ \A j \in 1..Len(kept[i].ch) : kept[i].ch[j] = target)
                        => ret.ch[i] = Nil

C4_Witness ==
    /\ pc = "rec_remove"
    /\ target = a
    /\ lst = List(<<b, List(<<a>>), a>>)
    /\ ret = List(<<b, Nil>>)

(***************************************************************************)
(* C5  rec_remove never removes the root: rec_remove(T, T) = T for every   *)
(* Compound T, whereas rec_replace(T, R, T) = R for every T and R.         *)
(***************************************************************************)
C5_RootNotRemoved ==
    /\ (pc = "rec_remove" /\ Compound(lst) /\ target = lst) => ret = lst
    /\ (pc = "rec_replace" /\ target = lst) => ret = repl

C5_Witness ==
    /\ pc = "rec_remove"
    /\ target = lst
    /\ lst = List(<<a, List(<<b>>)>>)
    /\ ret = lst

(***************************************************************************)
(* C6  substall composes left to right: substall(tree, [p_1..p_n]) is      *)
(* subst applied for p_1, then p_2, ... each on the result of the one      *)
(* before; with [(a, b), (b, c)] every a of the tree ends up as c, and the *)
(* result can differ from that of the reversed list.                       *)
(***************************************************************************)
\* The tree after the first n pairs of r, each applied to the result of the one before.
RECURSIVE AfterPairs(_, _, _)
AfterPairs(t, r, n) ==
    IF n = 0 THEN t
    ELSE subst(r[n][2], r[n][1], AfterPairs(t, r, n - 1))

Reversed(r) == [i \in 1..Len(r) |-> r[Len(r) + 1 - i]]

C6_SubstallLeftToRight ==
    pc = "substall" =>
        /\ ret = AfterPairs(lst, replist, Len(replist))
        /\ replist = <<<<a, b>>, <<b, c>>>> =>
              \A q \in Paths(lst) :
                  At(lst, q) = a => q \in Paths(ret) /\ At(ret, q) = c

C6_Witness ==
    /\ pc = "substall"
    /\ replist = <<<<a, b>>, <<b, c>>>>
    /\ lst = List(<<a, List(<<b, a>>)>>)
    /\ ret = List(<<c, List(<<c, c>>)>>)
    /\ ret # substall(lst, Reversed(replist))

(***************************************************************************)
(* C7  Match order of extract_category: the matches of a Compound are its  *)
(* direct children that satisfy the predicate, in their order, followed by *)
(* the matches found in each kept child, in child order; so [[m], m']      *)
(* with both matching yields [m', m].                                      *)
(***************************************************************************)
RECURSIVE NestedMatches(_, _)
NestedMatches(kept, i) ==
    IF i > Len(kept) THEN <<>>
    ELSE extract_category(kept[i], catfn, NoFn).categories.ch \o NestedMatches(kept, i + 1)

C7_MatchOrder ==
    pc = "extract_category" /\ ignfn = NoFn /\ Compound(lst) =>
        /\ categories.ch =
              SelectSeq(lst.ch, LAMBDA e : Call(catfn, e))
                  \o NestedMatches(SelectSeq(lst.ch, LAMBDA e : ~Call(catfn, e)), 1)
        /\ (lst = List(<<List(<<a>>), b>>) /\ catfn = In({a, b}))
              => categories = List(<<b, a>>)

C7_Witness ==
    /\ pc = "extract_category"
    /\ ignfn = NoFn
    /\ lst = List(<<List(<<a>>), b>>)
    /\ catfn = In({a, b})
    /\ categories = List(<<b, a>>)
    /\ ret = List(<<Nil>>)

(***************************************************************************)
(* C8  rec_remove is idempotent and leaves no target behind: for every     *)
(* Compound tree and every target (Atom or Compound, the empty Compound    *)
(* included) no child at any depth of rec_remove(target, tree) equals      *)
(* target, and removing again changes nothing.                             *)
(***************************************************************************)
NoTargetLeft ==
    /\ target \notin Inner(ret)
    /\ rec_remove(target, ret) = ret

C8_RemoveIdempotent ==
    pc = "rec_remove" /\ Compound(lst) => NoTargetLeft

\* C8 as amended: the same, for every target that is not a Compound (text,
\* number or nil).
C8_RemoveIdempotentAtomTarget ==
    pc = "rec_remove" /\ Compound(lst) /\ ~Compound(target) => NoTargetLeft

C8_Witness ==
    /\ pc = "rec_remove"
    /\ target = a
    /\ lst = List(<<List(<<b, List(<<a>>)>>)>>)
    /\ ret = List(<<List(<<b, Nil>>)>>)

(***************************************************************************)
(* C9  rec_replace and subst agree on Compound inputs (the empty Compound  *)
(* included): rec_replace(old, new, tree) = subst(new, old, tree); a       *)
(* subtree equal to old is replaced at any depth, the root included,       *)
(* without being looked into, and the new value is not searched again.     *)
(***************************************************************************)
C9_ReplaceAgreesWithSubst ==
    /\ (pc = "rec_replace" /\ Compound(lst)) => ret = subst(repl, target, lst)
    /\ (pc = "subst" /\ Compound(lst)) => ret = rec_replace(target, repl, lst)
    /\ (pc \in {"rec_replace", "subst"} /\ Compound(lst)) =>
          /\ target = lst => ret = repl
          /\ LET found == {q \in Paths(lst) : At(lst, q) = target}
             IN  \A q \in found :
                    (\A r \in found : ~StrictlyInside(q, r))
                        => q \in Paths(ret) /\ At(ret, q) = repl

\* rec_replace('a', ['a'], ['b', ['a']]): the new value ['a'] holds old and is
\* not searched again.
C9_Witness ==
    /\ pc = "rec_replace"
    /\ target = a
    /\ repl = List(<<a>>)
    /\ lst = List(<<b, List(<<a>>)>>)
    /\ ret = List(<<b, List(<<List(<<a>>)>>)>>)

(***************************************************************************)
(* C10  Extraction conserves content: with or without an ignore predicate, *)
(* the leaves (non-Compound values) of the rewritten tree together with    *)
(* those of all the matches are, as a multiset, the leaves of the input.   *)
(***************************************************************************)
C10_LeavesConserved ==
    pc = "extract_category" =>
        \A x \in LeafValues(lst) \cup LeafValues(ret) \cup LeafValues(categories) :
            Count(flatten(ret).ch, x) + Count(flatten(categories).ch, x)
                = Count(flatten(lst).ch, x)

\* An ignored list whose inner list loses a match: the leaf moves to the matches.
C10_Witness ==
    /\ pc = "extract_category"
    /\ ignfn = HeadIs(a)
    /\ catfn = In({b})
    /\ lst = List(<<List(<<a, List(<<b>>)>>)>>)
    /\ ret = List(<<List(<<a, Nil>>)>>)
    /\ categories = List(<<b>>)

====
